---- MODULE Spec2Model ----
(***************************************************************************)
(* A polling filesystem watcher (watch.go, event.go).                      *)
(*                                                                         *)
(* The watcher owns a target set (names), the last snapshot (files), three *)
(* unbuffered channels (Events, Errors, closed), a WaitGroup, a mutex and  *)
(* one atomic flag (running) that both Start and Close compare-and-swap.   *)
(* Callers invoke Start, Close, Add and Remove concurrently; one goroutine *)
(* runs doWatch.  The filesystem is the environment.                       *)
(***************************************************************************)
EXTENDS Integers, Sequences, FiniteSets, TLC

(***************************************************************************)
(* Bounds of the model.                                                    *)
(***************************************************************************)
NumCallers == 2      \* concurrent caller goroutines
MaxId      == 2      \* distinct file identities (device+inode)
MaxTime    == 1      \* modification times 0..MaxTime
MaxSize    == 1      \* sizes 0..MaxSize
MaxFsOps   == 2      \* filesystem changes made by the environment in one run
MaxCalls   == 3      \* calls of Start, Close, Add and Remove made in one run

Callers == 1..NumCallers
Ids     == 1..MaxId
Times   == 0..MaxTime
Sizes   == 0..MaxSize

(***************************************************************************)
(* event.go: the Op bit flags.                                             *)
(***************************************************************************)
Create == 1
Remove == 2
Modify == 4
Rename == 8
Chmod  == 16
Move   == 32

OpBits == {Create, Remove, Modify, Rename, Chmod, Move}

\* op&bit == bit, for a single-bit constant
HasBit(op, bit) == (op \div bit) % 2 = 1

\* Event.HasOps(ops...): some op of the list intersects e.Op
HasOps(e, ops) == \E o \in ops : \E b \in OpBits : HasBit(e.Op, b) /\ HasBit(o, b)

(***************************************************************************)
(* Paths are sequences of path components; filepath.Dir drops the last     *)
(* component and filepath.Join appends one.                                *)
(***************************************************************************)
DirD == <<"d">>
DirE == <<"e">>
Paths == {DirD, DirE, <<"d", "a">>, <<"d", "b">>, <<"e", "a">>}
DirPaths == {DirD, DirE}
FilePaths == Paths \ DirPaths
\* the names callers pass to Add and Remove, and the files the environment touches
Targets == {DirD, <<"d", "a">>}
Playground == {<<"d", "a">>, <<"d", "b">>}

filepathDir(p) == IF Len(p) = 0 THEN p ELSE SubSeq(p, 1, Len(p) - 1)
filepathJoin(dir, entry) == dir \o <<entry>>

\* os.FileInfo as far as the watcher reads it: identity (os.SameFile),
\* IsDir, ModTime, Size
DirId(d) == MaxId + (IF d = DirD THEN 1 ELSE 2)
FileInfo == [id : Ids \cup {DirId(d) : d \in DirPaths}, dir : BOOLEAN,
             mtime : Times, size : Sizes]

SameFile(fi1, fi2) == fi1.id = fi2.id

EmptyMap == [p \in {} |-> [id |-> 1, dir |-> FALSE, mtime |-> 0, size |-> 0]]

\* map helpers: delete(m, k) and the merge loop `for k, v := range g { m[k] = v }`
MapDelete(m, ks) == [p \in DOMAIN m \ ks |-> m[p]]
MapMerge(m, g) == [p \in DOMAIN m \cup DOMAIN g |-> IF p \in DOMAIN g THEN g[p] ELSE m[p]]

(***************************************************************************)
(* Errors.  listForName formats the cause with fmt.Errorf("name %s with     *)
(* error %v"), which yields a plain error value that carries the name and  *)
(* the cause only as text; os.IsNotExist recognises *PathError /           *)
(* *LinkError / *SyscallError and the sentinel errors themselves.          *)
(***************************************************************************)
NoErr == [type |-> "nil", cause |-> "nil", name |-> <<>>]
PathError(name, cause) == [type |-> "PathError", cause |-> cause, name |-> name]
Errorf(name, err) == [type |-> "errorString", cause |-> err.cause, name |-> name]
osIsNotExist(err) == err.type = "PathError" /\ err.cause = "ENOENT"

VARIABLES
    fs,          \* filesystem: path -> FileInfo, for the paths that exist
    unreadable,  \* directories whose ReadDir fails (permission)
    fsOps,       \* number of filesystem changes so far
    running,     \* Watcher.running, atomic.Int32
    chClosed,    \* number of close() calls on each channel
    names,       \* Watcher.names
    files,       \* Watcher.files
    wg,          \* Watcher.wg counter
    mu,          \* Watcher.mu: 0 free, else the holder (a caller or LoopHolder)
    pc,          \* per caller: position in its current call
    op,          \* per caller: the method being called
    arg,         \* per caller: the name argument of Add / Remove
    ret,         \* per caller: the value the finished call returned
    calls,       \* number of calls made so far
    launched,    \* number of doWatch goroutines started
    loop,        \* the doWatch goroutine: position and locals
    sent,        \* events and errors received by the consumer in this cycle
    panicked     \* the runtime panics raised so far

vars == <<fs, unreadable, fsOps, running, chClosed, names, files, wg, mu,
          pc, op, arg, ret, calls, launched, loop, sent, panicked>>

fsVars == <<fs, unreadable, fsOps>>
callerVars == <<pc, op, arg, ret, calls>>

IsClosed(ch) == chClosed[ch] > 0

(***************************************************************************)
(* listForName: stat the name, and for a directory read its entries.       *)
(* Returns [err, list]; list is nil (empty) when err is set.               *)
(***************************************************************************)
Children(name) ==
    {p \in DOMAIN fs : Len(p) = Len(name) + 1 /\ filepathDir(p) = name}

listForName(name) ==
    IF name \notin DOMAIN fs
    THEN [err |-> Errorf(name, PathError(name, "ENOENT")), list |-> EmptyMap]
    ELSE IF ~fs[name].dir
    THEN [err |-> NoErr, list |-> [p \in {name} |-> fs[p]]]
    ELSE IF name \in unreadable
    THEN [err |-> Errorf(name, PathError(name, "EACCES")), list |-> EmptyMap]
    ELSE [err |-> NoErr,
          list |-> [p \in {name} \cup {filepathJoin(name, c[Len(c)]) : c \in Children(name)}
                      |-> fs[p]]]

(***************************************************************************)
(* doRemove: drop the target, its snapshot entry and, for a directory, the *)
(* entries whose parent is exactly name.  Returns [names, files].          *)
(***************************************************************************)
doRemove(ns, fl, name) ==
    IF name \notin DOMAIN fl
    THEN [names |-> ns \ {name}, files |-> fl]
    ELSE IF ~fl[name].dir
    THEN [names |-> ns \ {name}, files |-> MapDelete(fl, {name})]
    ELSE [names |-> ns \ {name},
          files |-> MapDelete(fl, {name} \cup
                        {fp \in DOMAIN fl : filepathDir(fp) = name})]


(***************************************************************************)
(* NewWatcher: open channels, empty maps, running = 0.  The filesystem     *)
(* starts with two directories and one file.                               *)
(***************************************************************************)
NoArg == <<>>
LoopHolder == NumCallers + 1

NoInfo == [id |-> 0, dir |-> FALSE, mtime |-> 0, size |-> 0]

\* locals of doWatch / listForAll / pollEvents: currFileList, created, removed,
\* the keys a range loop has still to visit, the removed entry the pairing loop
\* is at (removeFp, removeFi) and the error listForAll is about to send
IdleLoop == [pc |-> "none", curr |-> EmptyMap, created |-> EmptyMap,
             removed |-> EmptyMap, todo |-> {}, removeFp |-> NoArg,
             removeFi |-> NoInfo, err |-> NoErr]

InitFs ==
    (DirD :> [id |-> DirId(DirD), dir |-> TRUE, mtime |-> 0, size |-> 0])
    @@ (DirE :> [id |-> DirId(DirE), dir |-> TRUE, mtime |-> 0, size |-> 0])
    @@ (<<"d", "a">> :> [id |-> 1, dir |-> FALSE, mtime |-> 0, size |-> 0])

NewWatcher ==
    /\ running = 0
    /\ chClosed = [ch \in {"closed", "Events", "Errors"} |-> 0]
    /\ names = {}
    /\ files = EmptyMap
    /\ wg = 0
    /\ mu = 0

Init ==
    /\ NewWatcher
    /\ fs = InitFs
    /\ unreadable = {}
    /\ fsOps = 0
    /\ pc = [c \in Callers |-> "idle"]
    /\ op = [c \in Callers |-> "none"]
    /\ arg = [c \in Callers |-> NoArg]
    /\ ret = [c \in Callers |-> "none"]
    /\ calls = 0
    /\ launched = 0
    /\ loop = IdleLoop
    /\ sent = <<>>
    /\ panicked = {}

(***************************************************************************)
(* Caller bookkeeping: a call that returns parks its result in ret until   *)
(* the caller goes on to its next call.                                    *)
(***************************************************************************)
Goto(c, label) == pc' = [pc EXCEPT ![c] = label]

\* an idle caller begins a call
Begin(c, method) ==
    /\ pc[c] = "idle"
    /\ calls < MaxCalls
    /\ calls' = calls + 1
    /\ op' = [op EXCEPT ![c] = method]

ReturnWith(c, value) ==
    /\ pc' = [pc EXCEPT ![c] = "done"]
    /\ ret' = [ret EXCEPT ![c] = value]

CallReturned(c) ==
    /\ pc[c] = "done"
    /\ pc' = [pc EXCEPT ![c] = "idle"]
    /\ op' = [op EXCEPT ![c] = "none"]
    /\ arg' = [arg EXCEPT ![c] = NoArg]
    /\ ret' = [ret EXCEPT ![c] = "none"]
    /\ UNCHANGED <<fsVars, running, chClosed, names, files, wg, mu, calls, launched,
                   loop, sent, panicked>>

\* close(ch): a second close of a channel panics
CloseChan(ch) ==
    /\ chClosed' = [chClosed EXCEPT ![ch] = IF @ < 2 THEN @ + 1 ELSE @]
    /\ panicked' = IF IsClosed(ch) THEN panicked \cup {"close of closed channel"}
                   ELSE panicked

(***************************************************************************)
(* Start                                                                   *)
(***************************************************************************)
\* a Start whose guard is a plain store instead of a compare-and-swap
StartCASStoreOnly(c) ==
    /\ Begin(c, "Start")
    /\ running' = 1
    /\ Goto(c, "start_select")
    /\ UNCHANGED <<fsVars, chClosed, names, files, wg, mu, arg, ret, launched,
                   loop, sent, panicked>>

\* if !w.running.CompareAndSwap(0, 1) { return ErrWatcherStarted }
StartCAS(c) ==
    /\ Begin(c, "Start")
    /\ IF running = 0
       THEN /\ running' = 1
            /\ Goto(c, "start_select")
            /\ UNCHANGED ret
       ELSE /\ ReturnWith(c, "ErrWatcherStarted")
            /\ UNCHANGED running
    /\ UNCHANGED <<fsVars, chClosed, names, files, wg, mu, arg, launched,
                   loop, sent, panicked>>

\* select { case <-w.closed: return ErrWatcherClosed; default: }
StartSelect(c) ==
    /\ pc[c] = "start_select"
    /\ IF IsClosed("closed")
       THEN ReturnWith(c, "ErrWatcherClosed")
       ELSE Goto(c, "start_go") /\ UNCHANGED ret
    /\ UNCHANGED <<fsVars, running, chClosed, names, files, wg, mu, op, arg,
                   calls, launched, loop, sent, panicked>>

\* w.wg.Add(1); go func() { defer w.wg.Done(); w.doWatch(d) }(); return nil
StartGo(c) ==
    /\ pc[c] = "start_go"
    /\ wg' = wg + 1
    /\ launched' = IF launched < 2 THEN launched + 1 ELSE launched
    /\ loop' = IF loop.pc = "none" THEN [IdleLoop EXCEPT !.pc = "select"] ELSE loop
    /\ ReturnWith(c, "nil")
    /\ UNCHANGED <<fsVars, running, chClosed, names, files, mu, op, arg, calls,
                   sent, panicked>>

(***************************************************************************)
(* Close                                                                   *)
(***************************************************************************)
\* a Close guarded by a flag of its own, so that it also stops a started watcher
CloseCASOwnFlag(c) ==
    /\ Begin(c, "Close")
    /\ IF ~IsClosed("closed")
       THEN Goto(c, "close_signal") /\ UNCHANGED ret
       ELSE ReturnWith(c, "void")
    /\ UNCHANGED <<fsVars, running, chClosed, names, files, wg, mu, arg,
                   launched, loop, sent, panicked>>

\* if !w.running.CompareAndSwap(0, 1) { return }
CloseCAS(c) ==
    /\ Begin(c, "Close")
    /\ IF running = 0
       THEN /\ running' = 1
            /\ Goto(c, "close_signal")
            /\ UNCHANGED ret
       ELSE /\ ReturnWith(c, "void")
            /\ UNCHANGED running
    /\ UNCHANGED <<fsVars, chClosed, names, files, wg, mu, arg, launched,
                   loop, sent, panicked>>

\* close(w.closed)
CloseSignal(c) ==
    /\ pc[c] = "close_signal"
    /\ CloseChan("closed")
    /\ Goto(c, "close_wait")
    /\ UNCHANGED <<fsVars, running, names, files, wg, mu, op, arg, ret,
                   calls, launched, loop, sent>>

\* w.wg.Wait()
CloseWait(c) ==
    /\ pc[c] = "close_wait"
    /\ wg = 0
    /\ Goto(c, "close_events")
    /\ UNCHANGED <<fsVars, running, chClosed, names, files, wg, mu, op, arg,
                   ret, calls, launched, loop, sent, panicked>>

\* close(w.Events)
CloseEvents(c) ==
    /\ pc[c] = "close_events"
    /\ CloseChan("Events")
    /\ Goto(c, "close_errors")
    /\ UNCHANGED <<fsVars, running, names, files, wg, mu, op, arg, ret,
                   calls, launched, loop, sent>>

\* close(w.Errors)
CloseErrors(c) ==
    /\ pc[c] = "close_errors"
    /\ CloseChan("Errors")
    /\ Goto(c, "close_clear")
    /\ UNCHANGED <<fsVars, running, names, files, wg, mu, op, arg, ret,
                   calls, launched, loop, sent>>

\* w.mu.Lock(); w.names = make(...); w.files = make(...); w.mu.Unlock()
CloseClear(c) ==
    /\ pc[c] = "close_clear"
    /\ mu = 0
    /\ names' = {}
    /\ files' = EmptyMap
    /\ ReturnWith(c, "void")
    /\ UNCHANGED <<fsVars, running, chClosed, wg, mu, op, arg, calls, launched, loop,
                   sent, panicked>>

(***************************************************************************)
(* Add                                                                     *)
(***************************************************************************)
\* func (w *Watcher) Add(name string) error: the call is made
AddCall(c, name) ==
    /\ Begin(c, "Add")
    /\ arg' = [arg EXCEPT ![c] = name]
    /\ Goto(c, "add_lock")
    /\ UNCHANGED <<fsVars, running, chClosed, names, files, wg, mu, ret, launched,
                   loop, sent, panicked>>

\* w.mu.Lock(); defer w.mu.Unlock()
AddLock(c) ==
    /\ pc[c] = "add_lock"
    /\ mu = 0
    /\ mu' = c
    /\ Goto(c, "add_select")
    /\ UNCHANGED <<fsVars, running, chClosed, names, files, wg, op, arg, ret, calls,
                   launched, loop, sent, panicked>>

\* an Add that does not look at w.closed
AddSelectNoCheck(c) ==
    /\ pc[c] = "add_select"
    /\ Goto(c, "add_list")
    /\ UNCHANGED <<fsVars, running, chClosed, names, files, wg, mu, op, arg,
                   ret, calls, launched, loop, sent, panicked>>

\* select { case <-w.closed: return ErrWatcherClosed; default: }
AddSelect(c) ==
    /\ pc[c] = "add_select"
    /\ IF IsClosed("closed")
       THEN ReturnWith(c, "ErrWatcherClosed") /\ mu' = 0
       ELSE Goto(c, "add_list") /\ UNCHANGED <<ret, mu>>
    /\ UNCHANGED <<fsVars, running, chClosed, names, files, wg, op, arg,
                   calls, launched, loop, sent, panicked>>

\* an Add that registers the name before it lists it
AddListRegisterFirst(c) ==
    /\ pc[c] = "add_list"
    /\ LET r == listForName(arg[c]) IN
         /\ names' = names \cup {arg[c]}
         /\ IF r.err # NoErr
            THEN ReturnWith(c, "ErrFs") /\ UNCHANGED files
            ELSE files' = MapMerge(files, r.list) /\ ReturnWith(c, "nil")
    /\ mu' = 0
    /\ UNCHANGED <<fsVars, running, chClosed, wg, op, arg, calls, launched, loop,
                   sent, panicked>>

\* fileList, err := listForName(name); if err != nil { return err }
\* w.names[name] = struct{}{}; for fp, fi := range fileList { w.files[fp] = fi }
AddList(c) ==
    /\ pc[c] = "add_list"
    /\ LET r == listForName(arg[c]) IN
         IF r.err # NoErr
         THEN ReturnWith(c, "ErrFs") /\ UNCHANGED <<names, files>>
         ELSE /\ names' = names \cup {arg[c]}
              /\ files' = MapMerge(files, r.list)
              /\ ReturnWith(c, "nil")
    /\ mu' = 0
    /\ UNCHANGED <<fsVars, running, chClosed, wg, op, arg, calls, launched, loop,
                   sent, panicked>>

(***************************************************************************)
(* Remove                                                                  *)
(***************************************************************************)
\* func (w *Watcher) Remove(name string) error: the call is made
RemoveCall(c, name) ==
    /\ Begin(c, "Remove")
    /\ arg' = [arg EXCEPT ![c] = name]
    /\ Goto(c, "remove_lock")
    /\ UNCHANGED <<fsVars, running, chClosed, names, files, wg, mu, ret, launched,
                   loop, sent, panicked>>

\* w.mu.Lock(); defer w.mu.Unlock()
RemoveLock(c) ==
    /\ pc[c] = "remove_lock"
    /\ mu = 0
    /\ mu' = c
    /\ Goto(c, "remove_select")
    /\ UNCHANGED <<fsVars, running, chClosed, names, files, wg, op, arg, ret, calls,
                   launched, loop, sent, panicked>>

RemoveSelect(c) ==
    /\ pc[c] = "remove_select"
    /\ IF IsClosed("closed")
       THEN ReturnWith(c, "ErrWatcherClosed") /\ mu' = 0
       ELSE Goto(c, "remove_do") /\ UNCHANGED <<ret, mu>>
    /\ UNCHANGED <<fsVars, running, chClosed, names, files, wg, op, arg,
                   calls, launched, loop, sent, panicked>>

\* w.doRemove(name); return nil
RemoveDo(c) ==
    /\ pc[c] = "remove_do"
    /\ LET r == doRemove(names, files, arg[c]) IN
         /\ names' = r.names
         /\ files' = r.files
    /\ ReturnWith(c, "nil")
    /\ mu' = 0
    /\ UNCHANGED <<fsVars, running, chClosed, wg, op, arg, calls, launched, loop,
                   sent, panicked>>


(***************************************************************************)
(* The doWatch goroutine.  A send on an unbuffered channel completes only  *)
(* together with a receive of the consumer; the received values of the     *)
(* current cycle are kept in sent.  Every send is one case of a select     *)
(* whose other case is <-w.closed: when both are ready Go picks either.    *)
(* The field `with` of a received event is not part of Event: it records   *)
(* the created path a Move / Rename event was paired with.                 *)
(***************************************************************************)
SelectCases(other) == {other} \cup (IF IsClosed("closed") THEN {"closed"} ELSE {})

EventMsg(path, o, fi, with) ==
    [kind |-> "event", Path |-> path, Op |-> o, FileInfo |-> fi, with |-> with,
     err |-> NoErr]
ErrorMsg(err) ==
    [kind |-> "error", Path |-> NoArg, Op |-> 0, FileInfo |-> NoInfo, with |-> NoArg,
     err |-> err]

\* ch <- msg, received by the consumer; a send on a closed channel panics
Deliver(ch, msg) ==
    IF IsClosed(ch)
    THEN panicked' = panicked \cup {"send on closed channel"} /\ UNCHANGED sent
    ELSE sent' = Append(sent, msg) /\ UNCHANGED panicked

\* for { select { case <-w.closed: return; case <-ticker.C: ... } }
doWatch ==
    /\ loop.pc = "select"
    /\ \E case \in SelectCases("tick") :
         IF case = "closed"
         THEN /\ loop' = [loop EXCEPT !.pc = "exited"]
              /\ wg' = wg - 1
         ELSE /\ loop' = [loop EXCEPT !.pc = "list"]
              /\ UNCHANGED wg
    /\ UNCHANGED <<fsVars, running, chClosed, names, files, mu, callerVars,
                   launched, sent, panicked>>

\* listForAll: w.mu.Lock(); fileList := make(...); for name := range w.names
listForAllLock ==
    /\ loop.pc = "list"
    /\ mu = 0
    /\ mu' = LoopHolder
    /\ loop' = [loop EXCEPT !.pc = "list_names", !.todo = names, !.curr = EmptyMap]
    /\ UNCHANGED <<fsVars, running, chClosed, names, files, wg, callerVars,
                   launched, sent, panicked>>

\* one iteration of the range over w.names, up to the send of its error
listForAllName ==
    /\ loop.pc = "list_names"
    /\ \E name \in loop.todo \cap names :
         LET r == listForName(name) IN
           IF r.err # NoErr
           THEN /\ LET d == doRemove(names, files, name) IN
                      IF osIsNotExist(r.err)
                      THEN names' = d.names /\ files' = d.files
                      ELSE UNCHANGED <<names, files>>
                /\ loop' = [loop EXCEPT !.pc = "list_send", !.err = r.err,
                                        !.todo = @ \ {name}]
           ELSE /\ loop' = [loop EXCEPT !.curr = MapMerge(@, r.list),
                                        !.todo = @ \ {name}]
                /\ UNCHANGED <<names, files>>
    /\ UNCHANGED <<fsVars, running, chClosed, wg, mu, callerVars, launched,
                   sent, panicked>>

\* select { case <-w.closed: return nil; case w.Errors <- err: }
listForAllSend ==
    /\ loop.pc = "list_send"
    /\ \E case \in SelectCases("send") :
         IF case = "closed"
         THEN /\ loop' = [loop EXCEPT !.pc = "poll", !.curr = EmptyMap,
                                      !.err = NoErr, !.todo = {}]
              /\ mu' = 0
              /\ UNCHANGED <<sent, panicked>>
         ELSE /\ Deliver("Errors", ErrorMsg(loop.err))
              /\ loop' = [loop EXCEPT !.pc = "list_names", !.err = NoErr]
              /\ UNCHANGED mu
    /\ UNCHANGED <<fsVars, running, chClosed, names, files, wg, callerVars,
                   launched>>

\* the range over w.names is exhausted: return fileList (deferred Unlock)
listForAllReturn ==
    /\ loop.pc = "list_names"
    /\ loop.todo \cap names = {}
    /\ mu' = 0
    /\ loop' = [loop EXCEPT !.pc = "poll", !.todo = {}]
    /\ UNCHANGED <<fsVars, running, chClosed, names, files, wg, callerVars,
                   launched, sent, panicked>>


(***************************************************************************)
(* pollEvents                                                              *)
(***************************************************************************)
\* a comparison that looks at the modification time alone
ModifiedByTimeOnly(latestFi, currFi) == latestFi.mtime # currFi.mtime

\* !latestFi.ModTime().Equal(currFi.ModTime()) || latestFi.Size() != currFi.Size()
Modified(latestFi, currFi) ==
    latestFi.mtime # currFi.mtime \/ latestFi.size # currFi.size

\* paths of w.files absent from currFileList, with their old metadata
RemovedOf(prev, curr) == [p \in DOMAIN prev \ DOMAIN curr |-> prev[p]]
\* paths of currFileList absent from w.files, with their new metadata
CreatedOf(prev, curr) == [p \in DOMAIN curr \ DOMAIN prev |-> curr[p]]

\* a pairing that classifies by the created path's directory alone
CoalescedOpAlwaysMove(removeFp, createFp) == Move

\* ev.Op = Move; if filepath.Dir(removeFp) == filepath.Dir(createFp) { ev.Op = Rename }
CoalescedOp(removeFp, createFp) ==
    IF filepathDir(removeFp) = filepathDir(createFp) THEN Rename ELSE Move

\* created paths the inner loop, run for the removed entry removeFi, still pairs
InnerMatches(l) ==
    IF l.removeFp = NoArg THEN {}
    ELSE {c \in DOMAIN l.created : SameFile(l.removeFi, l.created[c])}

\* the (removed, created) pairs an iteration of the outer loop can start with
OuterMatches(l) ==
    {rc \in (DOMAIN l.removed) \X (DOMAIN l.created) :
        SameFile(l.removed[rc[1]], l.created[rc[2]])}

\* pollEvents runs from one send to the next without blocking: the loops that
\* have nothing left to send are passed, in the order of the code
\*   range currFileList (Modify) ; range removed x range created (Move/Rename) ;
\*   range created (Create) ; range removed (Remove) ; return
RunToSend(l, prev) ==
    LET l1 == IF l.pc = "poll_modify"
                 /\ \A fp \in l.todo \cap DOMAIN prev : ~Modified(prev[fp], l.curr[fp])
              THEN [l EXCEPT !.pc = "poll_pair", !.todo = {},
                             !.created = CreatedOf(prev, l.curr)]
              ELSE l
        l2 == IF l1.pc = "poll_pair" /\ InnerMatches(l1) = {} /\ OuterMatches(l1) = {}
              THEN [l1 EXCEPT !.pc = "poll_created", !.removeFp = NoArg,
                              !.removeFi = NoInfo]
              ELSE l1
        l3 == IF l2.pc = "poll_created" /\ DOMAIN l2.created = {}
              THEN [l2 EXCEPT !.pc = "poll_removed"]
              ELSE l2
    IN IF l3.pc = "poll_removed" /\ DOMAIN l3.removed = {}
       THEN [l3 EXCEPT !.pc = "poll_done"]
       ELSE l3

\* a pairing that reports the event at the created path
CoalescedEventAtCreated(removeFp, removeFi, createFp) ==
    EventMsg(createFp, CoalescedOp(removeFp, createFp), removeFi, createFp)

\* ev := Event{Path: removeFp, Op: Move, FileInfo: removeFi}, Op set as above
CoalescedEvent(removeFp, removeFi, createFp) ==
    EventMsg(removeFp, CoalescedOp(removeFp, createFp), removeFi, createFp)

\* pollEvents returns on <-w.closed (deferred Unlock); doWatch goes on
pollEventsAbort ==
    /\ mu' = 0
    /\ loop' = [loop EXCEPT !.pc = "swap", !.created = EmptyMap,
                            !.removed = EmptyMap, !.todo = {},
                            !.removeFp = NoArg, !.removeFi = NoInfo]
    /\ UNCHANGED <<sent, panicked>>

\* w.mu.Lock(); the first loop builds removed
pollEventsLock ==
    /\ loop.pc = "poll"
    /\ mu = 0
    /\ mu' = LoopHolder
    /\ loop' = RunToSend([loop EXCEPT !.pc = "poll_modify",
                                      !.removed = RemovedOf(files, loop.curr),
                                      !.created = EmptyMap,
                                      !.todo = DOMAIN loop.curr], files)
    /\ UNCHANGED <<fsVars, running, chClosed, names, files, wg, callerVars,
                   launched, sent, panicked>>

\* the range over currFileList: a path found in w.files whose ModTime or Size
\* differs is sent as Modify with the current metadata
pollEventsModify ==
    /\ loop.pc = "poll_modify"
    /\ \E fp \in loop.todo \cap DOMAIN files :
         /\ Modified(files[fp], loop.curr[fp])
         /\ \E case \in SelectCases("send") :
              IF case = "closed"
              THEN pollEventsAbort
              ELSE /\ Deliver("Events", EventMsg(fp, Modify, loop.curr[fp], NoArg))
                   /\ loop' = RunToSend([loop EXCEPT !.todo = @ \ {fp}], files)
                   /\ UNCHANGED mu
    /\ UNCHANGED <<fsVars, running, chClosed, names, files, wg, callerVars,
                   launched>>

\* for removeFp, removeFi := range removed { for createFp, createFi := range created {
\*   if os.SameFile(removeFi, createFi) { ...; delete both; send } } }
\* The inner loop has no break: it goes on with the same removeFi after a match.
pollEventsPair ==
    /\ loop.pc = "poll_pair"
    /\ \E r \in DOMAIN loop.removed \cup {loop.removeFp}, c \in DOMAIN loop.created :
         /\ IF InnerMatches(loop) # {}
            THEN r = loop.removeFp /\ c \in InnerMatches(loop)
            ELSE <<r, c>> \in OuterMatches(loop)
         /\ LET rfi == IF InnerMatches(loop) # {} THEN loop.removeFi ELSE loop.removed[r]
                after == [loop EXCEPT !.removeFp = r, !.removeFi = rfi,
                                      !.removed = MapDelete(@, {r}),
                                      !.created = MapDelete(@, {c})]
            IN \E case \in SelectCases("send") :
                 IF case = "closed"
                 THEN pollEventsAbort
                 ELSE /\ Deliver("Events", CoalescedEvent(r, rfi, c))
                      /\ loop' = RunToSend(after, files)
                      /\ UNCHANGED mu
    /\ UNCHANGED <<fsVars, running, chClosed, names, files, wg, callerVars,
                   launched>>

\* for fp, fi := range created { send Create }
pollEventsCreated ==
    /\ loop.pc = "poll_created"
    /\ \E fp \in DOMAIN loop.created :
         \E case \in SelectCases("send") :
           IF case = "closed"
           THEN pollEventsAbort
           ELSE /\ Deliver("Events", EventMsg(fp, Create, loop.created[fp], NoArg))
                /\ loop' = RunToSend([loop EXCEPT !.created = MapDelete(@, {fp})], files)
                /\ UNCHANGED mu
    /\ UNCHANGED <<fsVars, running, chClosed, names, files, wg, callerVars,
                   launched>>

\* for fp, fi := range removed { send Remove }
pollEventsRemoved ==
    /\ loop.pc = "poll_removed"
    /\ \E fp \in DOMAIN loop.removed :
         \E case \in SelectCases("send") :
           IF case = "closed"
           THEN pollEventsAbort
           ELSE /\ Deliver("Events", EventMsg(fp, Remove, loop.removed[fp], NoArg))
                /\ loop' = RunToSend([loop EXCEPT !.removed = MapDelete(@, {fp})], files)
                /\ UNCHANGED mu
    /\ UNCHANGED <<fsVars, running, chClosed, names, files, wg, callerVars,
                   launched>>

\* return from pollEvents: deferred w.mu.Unlock()
pollEventsReturn ==
    /\ loop.pc = "poll_done"
    /\ mu' = 0
    /\ loop' = [loop EXCEPT !.pc = "swap"]
    /\ UNCHANGED <<fsVars, running, chClosed, names, files, wg, callerVars,
                   launched, sent, panicked>>

\* w.mu.Lock(); w.files = currFileList; w.mu.Unlock()
doWatchSwap ==
    /\ loop.pc = "swap"
    /\ mu = 0
    /\ files' = loop.curr
    /\ loop' = [IdleLoop EXCEPT !.pc = "select"]
    /\ sent' = <<>>
    /\ UNCHANGED <<fsVars, running, chClosed, names, wg, mu, callerVars,
                   launched, panicked>>

(***************************************************************************)
(* The environment: files are created, removed, renamed / moved, written   *)
(* and directories lose or regain read permission.                         *)
(***************************************************************************)
UsedIds == {fs[p].id : p \in DOMAIN fs}

\* The watcher sees the filesystem only through listForName, so a change is
\* taken at the moment a listing is about to read it.
ListingAhead == loop.pc = "list_names" \/ \E c \in Callers : pc[c] = "add_list"

FsStep == ListingAhead /\ fsOps < MaxFsOps /\ fsOps' = fsOps + 1

\* os.Create(path): a new file, with an identity no existing file has
FsCreate(p, id) ==
    /\ FsStep
    /\ p \notin DOMAIN fs
    /\ filepathDir(p) \in DOMAIN fs
    /\ id \notin UsedIds
    /\ fs' = MapMerge(fs, [q \in {p} |-> [id |-> id, dir |-> FALSE, mtime |-> 0, size |-> 0]])
    /\ UNCHANGED unreadable

\* os.Remove(path)
FsRemove(p) ==
    /\ FsStep
    /\ p \in DOMAIN fs
    /\ fs' = MapDelete(fs, {p})
    /\ UNCHANGED unreadable

\* os.Rename(old, new): the file keeps its identity and metadata
FsRename(p, q) ==
    /\ FsStep
    /\ p \in DOMAIN fs
    /\ q \notin DOMAIN fs
    /\ filepathDir(q) \in DOMAIN fs
    /\ fs' = MapMerge(MapDelete(fs, {p}), [x \in {q} |-> fs[p]])
    /\ UNCHANGED unreadable

\* a write: modification time and / or size change
FsWrite(p, m, sz) ==
    /\ FsStep
    /\ p \in DOMAIN fs
    /\ <<m, sz>> # <<fs[p].mtime, fs[p].size>>
    /\ fs' = [fs EXCEPT ![p].mtime = m, ![p].size = sz]
    /\ UNCHANGED unreadable

\* chmod of a directory: os.ReadDir starts or stops failing
FsChmod(d) ==
    /\ FsStep
    /\ d \in DOMAIN fs
    /\ unreadable' = IF d \in unreadable THEN unreadable \ {d} ELSE unreadable \cup {d}
    /\ UNCHANGED fs

watcherVars == <<running, chClosed, names, files, wg, mu, callerVars,
                  launched, loop, sent, panicked>>

FsAction ==
    \/ \E p \in Playground, id \in Ids : FsCreate(p, id) /\ UNCHANGED watcherVars
    \/ \E p \in Playground : FsRemove(p) /\ UNCHANGED watcherVars
    \/ \E p, q \in Playground : FsRename(p, q) /\ UNCHANGED watcherVars
    \/ \E p \in Playground, m \in Times, sz \in Sizes :
          FsWrite(p, m, sz) /\ UNCHANGED watcherVars
    \/ FsChmod(DirD) /\ UNCHANGED watcherVars

(***************************************************************************)
(* The whole system.                                                       *)
(***************************************************************************)
CallerAction ==
    \E c \in Callers :
      \/ StartCAS(c) \/ StartSelect(c) \/ StartGo(c)
      \/ CloseCAS(c) \/ CloseSignal(c) \/ CloseWait(c) \/ CloseEvents(c)
      \/ CloseErrors(c) \/ CloseClear(c)
      \/ \E name \in Targets : AddCall(c, name)
      \/ AddLock(c) \/ AddSelect(c) \/ AddList(c)
      \/ \E name \in Targets : RemoveCall(c, name)
      \/ RemoveLock(c) \/ RemoveSelect(c) \/ RemoveDo(c)
      \/ CallReturned(c)

LoopAction ==
    \/ doWatch \/ listForAllLock \/ listForAllName \/ listForAllSend
    \/ listForAllReturn \/ pollEventsLock \/ pollEventsModify
    \/ pollEventsPair \/ pollEventsCreated \/ pollEventsRemoved
    \/ pollEventsReturn \/ doWatchSwap

Next == CallerAction \/ LoopAction \/ FsAction

Spec == Init /\ [][Next]_vars

(***************************************************************************)
(* Scheduling: a goroutine that can take a step of its own takes it.  A    *)
(* caller that began a call goes on with it, and the scan loop goes on     *)
(* wherever it does not wait for the consumer; that the consumer receives  *)
(* and that callers begin further calls is not assumed.  A caller waiting  *)
(* in w.mu.Lock() gets the mutex if it is free again and again (sync.Mutex *)
(* hands the lock to a starving waiter).                                   *)
(***************************************************************************)
CallerContinue ==
    \E c \in Callers :
      \/ StartSelect(c) \/ StartGo(c)
      \/ CloseSignal(c) \/ CloseWait(c) \/ CloseEvents(c)
      \/ CloseErrors(c) \/ CloseClear(c)
      \/ AddSelect(c) \/ AddList(c)
      \/ RemoveSelect(c) \/ RemoveDo(c)
      \/ CallReturned(c)

LockAcquired(c) == AddLock(c) \/ RemoveLock(c)

LoopInternal ==
    \/ doWatch \/ listForAllLock \/ listForAllName \/ listForAllReturn
    \/ pollEventsLock \/ pollEventsReturn \/ doWatchSwap

LiveSpec ==
    /\ Spec
    /\ WF_vars(CallerContinue)
    /\ WF_vars(LoopInternal)
    /\ \A c \in Callers : SF_vars(LockAcquired(c))


(***************************************************************************)
(* One diff cycle on its own: the watcher is started, listForAll has       *)
(* returned currFileList and pollEvents runs on any pair of snapshots.     *)
(* The previous snapshot carries mtime 0 and size 0; the current one any   *)
(* metadata.                                                               *)
(***************************************************************************)
Snapshots(infos) ==
    UNION {[S -> infos] : S \in SUBSET FilePaths}

PrevInfos == {fi \in FileInfo : fi.id \in Ids /\ ~fi.dir /\ fi.mtime = 0 /\ fi.size = 0}
CurrInfos == {fi \in FileInfo : fi.id \in Ids /\ ~fi.dir}

InitDiff ==
    /\ fs = InitFs
    /\ unreadable = {}
    /\ fsOps = 0
    /\ running = 1
    /\ chClosed = [ch \in {"closed", "Events", "Errors"} |-> 0]
    /\ wg = 1
    /\ mu = 0
    /\ pc = [c \in Callers |-> "idle"]
    /\ op = [c \in Callers |-> "none"]
    /\ arg = [c \in Callers |-> NoArg]
    /\ ret = [c \in Callers |-> "none"]
    /\ calls = 0
    /\ launched = 1
    /\ sent = <<>>
    /\ panicked = {}
    /\ files \in Snapshots(PrevInfos)
    /\ \E curr \in Snapshots(CurrInfos) :
         loop = [IdleLoop EXCEPT !.pc = "poll", !.curr = curr]
    /\ names = DOMAIN files \cup DOMAIN loop.curr

NextDiff ==
    \/ pollEventsLock \/ pollEventsModify \/ pollEventsPair
    \/ pollEventsCreated \/ pollEventsRemoved \/ pollEventsReturn

SpecDiff == InitDiff /\ [][NextDiff]_vars

(***************************************************************************)
(* The registry on its own: Add and Remove on a watcher that was not       *)
(* started, over a directory d that holds a file d/a and a directory d/s   *)
(* with a file d/s/x.  The watcher is new, or one Add has returned.        *)
(***************************************************************************)
DirS == <<"d", "s">>
NestedFs ==
    (DirD :> [id |-> DirId(DirD), dir |-> TRUE, mtime |-> 0, size |-> 0])
    @@ (DirS :> [id |-> DirId(DirS), dir |-> TRUE, mtime |-> 0, size |-> 0])
    @@ (<<"d", "a">> :> [id |-> 1, dir |-> FALSE, mtime |-> 0, size |-> 0])
    @@ (<<"d", "s", "x">> :> [id |-> 2, dir |-> FALSE, mtime |-> 0, size |-> 0])

RegistryTargets == {DirD, DirS, <<"d", "s", "x">>}

InitRegistry ==
    /\ fs = NestedFs
    /\ unreadable = {}
    /\ fsOps = 0
    /\ running = 0
    /\ chClosed = [ch \in {"closed", "Events", "Errors"} |-> 0]
    /\ wg = 0
    /\ mu = 0
    /\ pc = [c \in Callers |-> "idle"]
    /\ op = [c \in Callers |-> "none"]
    /\ arg = [c \in Callers |-> NoArg]
    /\ ret = [c \in Callers |-> "none"]
    /\ calls = 0
    /\ launched = 0
    /\ loop = IdleLoop
    /\ sent = <<>>
    /\ panicked = {}
    /\ \E first \in RegistryTargets \cup {NoArg} :
         /\ names = IF first = NoArg THEN {} ELSE {first}
         /\ files = IF first = NoArg THEN EmptyMap
                    ELSE MapMerge(EmptyMap, listForName(first).list)

NextRegistry ==
    \E c \in Callers :
      \/ \E name \in RegistryTargets : AddCall(c, name)
      \/ AddLock(c) \/ AddSelect(c) \/ AddList(c)
      \/ \E name \in RegistryTargets : RemoveCall(c, name)
      \/ RemoveLock(c) \/ RemoveSelect(c) \/ RemoveDo(c)
      \/ CallReturned(c)

SpecRegistry == InitRegistry /\ [][NextRegistry]_vars


(***************************************************************************)
(* Vocabulary of the properties.                                           *)
(***************************************************************************)
Returned(c, method) == pc[c] = "done" /\ op[c] = method
ShutdownPcs == {"close_signal", "close_wait", "close_events", "close_errors",
                "close_clear"}
InShutdown(c) == pc[c] \in ShutdownPcs
LoopAlive == loop.pc \notin {"none", "exited", "crashed"}
MidCycle == loop.pc \in {"poll", "poll_modify", "poll_pair", "poll_created",
                          "poll_removed", "poll_done", "swap"}
\* the registry state and the lifecycle state of the Watcher struct
registry == <<names, files>>
watcher == <<running, chClosed, names, files, wg, mu>>

(***************************************************************************)
(* C1 (as claimed): once a Close call has returned, Events and Errors are  *)
(* eventually closed.                                                      *)
(***************************************************************************)
C1_ClosedAfterClose ==
    (\E c \in Callers : Returned(c, "Close"))
       ~> (IsClosed("Events") /\ IsClosed("Errors"))

(***************************************************************************)
(* C2 (as claimed): once Close has been called on a watcher whose scan     *)
(* loop is running, the scan loop eventually exits.                        *)
(***************************************************************************)
C2_LoopExitsAfterClose ==
    (LoopAlive /\ \E c \in Callers : Returned(c, "Close"))
       ~> (loop.pc = "exited")

(***************************************************************************)
(* C3: at most one Start returns nil and launches the scan loop; every     *)
(* other Start returns ErrWatcherStarted (never ErrWatcherClosed), and a   *)
(* Start that returned nil excludes that Close has ever signalled          *)
(* shutdown, so no Start after a Close succeeds.                           *)
(***************************************************************************)
C3_AtMostOneStart ==
    /\ launched <= 1
    /\ \A c \in Callers :
         Returned(c, "Start") =>
           /\ ret[c] \in {"nil", "ErrWatcherStarted"}
           /\ ret[c] = "nil" => launched = 1 /\ ~IsClosed("closed")
           /\ IsClosed("closed") => ret[c] = "ErrWatcherStarted"

\* one Start has launched the loop and a later Start got ErrWatcherStarted
C3_Witness ==
    /\ launched = 1
    /\ LoopAlive
    /\ \E c \in Callers : Returned(c, "Start") /\ ret[c] = "ErrWatcherStarted"

(***************************************************************************)
(* C4: the shutdown sequence runs at most once: no channel is closed       *)
(* twice, at most one Close is inside the sequence, and a Close that       *)
(* begins once the flag is taken changes no state of the watcher.          *)
(***************************************************************************)
C4_CloseOnce ==
    [][/\ \A ch \in DOMAIN chClosed : chClosed'[ch] <= 1
       /\ "close of closed channel" \notin panicked'
       /\ Cardinality({c \in Callers : InShutdown(c)'}) <= 1
       /\ \A c \in Callers :
            (pc[c] = "idle" /\ op'[c] = "Close" /\ running # 0)
              => (Returned(c, "Close")' /\ UNCHANGED watcher)]_vars

\* a second Close has returned while the first is still in the sequence
C4_Witness ==
    \E c, d \in Callers :
       /\ c # d
       /\ Returned(c, "Close")
       /\ InShutdown(d)
       /\ IsClosed("closed")

(***************************************************************************)
(* C5: nothing is sent on Events or Errors after it was closed: whenever   *)
(* one of the two channels is closed the scan loop has exited or was never *)
(* started.                                                                *)
(***************************************************************************)
C5_NoSendAfterClose ==
    /\ "send on closed channel" \notin panicked
    /\ (IsClosed("Events") \/ IsClosed("Errors")) => ~LoopAlive

\* both channels are closed and a Start was refused around the shutdown
C5_Witness ==
    /\ IsClosed("Events")
    /\ IsClosed("Errors")
    /\ \E c \in Callers : Returned(c, "Start")

(***************************************************************************)
(* C6: an Add or Remove that reaches its check of w.closed after Close has *)
(* signalled shutdown returns ErrWatcherClosed and leaves names and files  *)
(* unchanged; once the shutdown sequence has finished names and files are  *)
(* empty, in every later state.                                            *)
(***************************************************************************)
ShutdownFinished ==
    IsClosed("Errors") /\ \A c \in Callers : pc[c] # "close_clear"

C6_ClosedRegistry ==
    /\ [](ShutdownFinished => names = {} /\ DOMAIN files = {})
    /\ [][\A c \in Callers :
            (pc[c] \in {"add_select", "remove_select"} /\ IsClosed("closed")
               /\ pc'[c] # pc[c])
              => (pc'[c] = "done" /\ ret'[c] = "ErrWatcherClosed"
                    /\ UNCHANGED registry)]_vars

\* an Add was refused while the shutdown sequence is still waiting for the
\* lock, with a target still registered
C6_Witness ==
    \E c, d \in Callers :
       /\ Returned(c, "Add")
       /\ ret[c] = "ErrWatcherClosed"
       /\ InShutdown(d)
       /\ names # {}

(***************************************************************************)
(* C7: an Add whose listing fails returns a non-nil error and leaves names *)
(* and files as they were.                                                 *)
(***************************************************************************)
C7_FailedAddNoEffect ==
    [][\A c \in Callers :
         (pc[c] = "add_list" /\ pc'[c] # pc[c] /\ listForName(arg[c]).err # NoErr)
           => (pc'[c] = "done" /\ ret'[c] \notin {"nil", "none"}
                 /\ UNCHANGED registry)]_vars

\* an Add of a directory that cannot be read has failed on a non-empty registry
C7_Witness ==
    \E c \in Callers :
       /\ Returned(c, "Add")
       /\ ret[c] = "ErrFs"
       /\ arg[c] \in DOMAIN fs
       /\ names # {}

(***************************************************************************)
(* C8 (as claimed): no Add or Remove takes effect between a cycle's        *)
(* listing and its snapshot replacement.                                   *)
(***************************************************************************)
C8_SwapAtomic ==
    [][\A c \in Callers :
         (pc[c] \in {"add_list", "remove_do"} /\ pc'[c] = "done"
            /\ registry' # registry)
           => ~MidCycle]_vars

(***************************************************************************)
(* Properties of one diff cycle, read when pollEvents is about to return:  *)
(* files is the previous snapshot, loop.curr the current one and sent the  *)
(* events of the cycle.                                                    *)
(***************************************************************************)
CycleDone == loop.pc = "poll_done"
Events(P(_)) == {i \in 1..Len(sent) : sent[i].kind = "event" /\ P(sent[i])}
RemovedPaths == DOMAIN files \ DOMAIN loop.curr
CreatedPaths == DOMAIN loop.curr \ DOMAIN files
SamePair(R, C) == files[R].id = loop.curr[C].id

\* what the claim says of a same-identity pair (R, C)
CoalescedOnce(R, C) ==
    LET forPair(e) == e.with = C /\ e.Path = R
        wrongPath(e) == e.with = C /\ e.Path # R
        plainRemove(e) == e.Path = R /\ HasBit(e.Op, Remove)
        plainCreate(e) == e.Path = C /\ HasBit(e.Op, Create)
    IN /\ Cardinality(Events(forPair)) = 1
       /\ \A i \in Events(forPair) : sent[i].Op \in {Move, Rename}
       /\ Events(wrongPath) = {}
       /\ Events(plainRemove) = {}
       /\ Events(plainCreate) = {}

(***************************************************************************)
(* C9 (as claimed): every removed path R and created path C of the same    *)
(* identity yield exactly one Move or Rename event at R, no Remove for R   *)
(* and no Create for C.                                                    *)
(***************************************************************************)
C9_EveryPairCoalesced ==
    CycleDone =>
      \A R \in RemovedPaths, C \in CreatedPaths :
         SamePair(R, C) => CoalescedOnce(R, C)

(***************************************************************************)
(* C9 (amended): the same, for a removed path R that is the only removed   *)
(* path of its identity; and a created path that shares its identity with  *)
(* some removed path is never reported as Create.                          *)
(***************************************************************************)
OnlyRemovedOfItsIdentity(R) ==
    \A R2 \in RemovedPaths : files[R2].id = files[R].id => R2 = R

C9_UniqueRemovedCoalesced ==
    CycleDone =>
      \A R \in RemovedPaths, C \in CreatedPaths :
         SamePair(R, C) =>
           /\ OnlyRemovedOfItsIdentity(R) => CoalescedOnce(R, C)
           /\ \A i \in 1..Len(sent) :
                ~(sent[i].Path = C /\ HasBit(sent[i].Op, Create))

\* a cycle has ended with a pair coalesced next to a plain Create of another file
C9_Witness ==
    /\ CycleDone
    /\ \E R \in RemovedPaths, C \in CreatedPaths :
         SamePair(R, C) /\ OnlyRemovedOfItsIdentity(R)
    /\ \E i, j \in 1..Len(sent) :
         sent[i].with # NoArg /\ HasBit(sent[j].Op, Create)

(***************************************************************************)
(* C10: a coalesced event carries exactly the Rename flag when the removed *)
(* and the created path have the same parent directory, and exactly the    *)
(* Move flag otherwise.                                                    *)
(***************************************************************************)
C10_RenameOrMove ==
    \A i \in 1..Len(sent) :
       sent[i].with # NoArg =>
         LET want == IF filepathDir(sent[i].Path) = filepathDir(sent[i].with)
                     THEN Rename ELSE Move
         IN \A b \in OpBits : HasBit(sent[i].Op, b) <=> b = want

\* one cycle has sent a Rename and a Move
C10_Witness ==
    \E i, j \in 1..Len(sent) :
       /\ sent[i].with # NoArg /\ HasBit(sent[i].Op, Rename)
       /\ sent[j].with # NoArg /\ HasBit(sent[j].Op, Move)

(***************************************************************************)
(* Replaying the events of a cycle onto a snapshot: Create adds the entry  *)
(* the event carries, Remove deletes the entry, Modify replaces the        *)
(* metadata, and Move / Rename relocates the entry found at the event's    *)
(* path to the created path it was paired with.                            *)
(***************************************************************************)
ApplyEvent(S, e) ==
    IF e.kind # "event" THEN S
    ELSE IF HasBit(e.Op, Create)
    THEN MapMerge(S, [p \in {e.Path} |-> e.FileInfo])
    ELSE IF HasBit(e.Op, Remove)
    THEN MapDelete(S, {e.Path})
    ELSE IF HasBit(e.Op, Modify)
    THEN [p \in DOMAIN S |-> IF p = e.Path THEN e.FileInfo ELSE S[p]]
    ELSE IF e.Path \in DOMAIN S
    THEN MapMerge(MapDelete(S, {e.Path}), [p \in {e.with} |-> S[e.Path]])
    ELSE S

RECURSIVE Replay(_, _)
Replay(S, evs) ==
    IF evs = <<>> THEN S ELSE Replay(ApplyEvent(S, Head(evs)), Tail(evs))

(***************************************************************************)
(* C11 (as claimed): the events of a completed diff cycle, replayed onto   *)
(* the previous snapshot, reconstruct the current snapshot.                *)
(***************************************************************************)
C11_ReplayReconstructs ==
    CycleDone => Replay(files, sent) = loop.curr

(***************************************************************************)
(* C12 (as claimed): on a watcher that is not closed, a Remove of a name   *)
(* that is not in the target set returns nil and leaves the target set and *)
(* the stored snapshot unchanged, also when the name is a tracked child of *)
(* a registered directory.                                                 *)
(***************************************************************************)
C12_RemoveUnregisteredNoOp ==
    [][\A c \in Callers :
         (pc[c] = "remove_do" /\ pc'[c] # pc[c] /\ arg[c] \notin names)
           => (pc'[c] = "done" /\ ret'[c] = "nil" /\ UNCHANGED registry)]_vars

(***************************************************************************)
(* C13 (as claimed): when the listing of a registered target fails in a    *)
(* scan cycle, the error is handed to Errors and the loop goes on with the *)
(* remaining targets; a target that does not exist is taken out of the     *)
(* target set together with its snapshot entry and its direct children,    *)
(* and any other failure leaves the registry as it was.                    *)
(***************************************************************************)
C13_FailedListing ==
    [][(loop.pc = "list_names" /\ loop'.pc = "list_send")
         => /\ loop'.err # NoErr
            /\ loop'.todo = loop.todo \ {loop'.err.name}
            /\ IF loop'.err.cause = "ENOENT"
               THEN /\ loop'.err.name \notin names'
                    /\ names' = doRemove(names, files, loop'.err.name).names
                    /\ files' = doRemove(names, files, loop'.err.name).files
               ELSE /\ loop'.err.name \in names'
                    /\ UNCHANGED registry]_vars

(***************************************************************************)
(* C14 (as claimed): within one cycle every removed path is the path of at *)
(* most one coalesced Move / Rename event and every created path is paired *)
(* in at most one.                                                         *)
(***************************************************************************)
Coalesced == {i \in 1..Len(sent) : sent[i].kind = "event" /\ sent[i].with # NoArg}

C14_PairedAtMostOnce ==
    \A i, j \in Coalesced :
       (sent[i].Path = sent[j].Path \/ sent[i].with = sent[j].with) => i = j

(***************************************************************************)
(* C15: in a cycle that runs to completion, a path present in both the     *)
(* previous and the current snapshot gets exactly one event, a Modify with *)
(* the current metadata, if its modification time or its size differs, and *)
(* no event otherwise; it is never the path of a Create, Remove, Rename or *)
(* Move event, nor the created path of a pairing.                          *)
(***************************************************************************)
CommonPaths == DOMAIN files \cap DOMAIN loop.curr
Differs(p) ==
    files[p].mtime # loop.curr[p].mtime \/ files[p].size # loop.curr[p].size
EventsAt(p) == {i \in 1..Len(sent) : sent[i].kind = "event" /\ sent[i].Path = p}

C15_ModifyForCommonPaths ==
    \A p \in CommonPaths :
       /\ \A i \in EventsAt(p) :
            /\ sent[i].Op = Modify
            /\ sent[i].FileInfo = loop.curr[p]
            /\ Differs(p)
       /\ Cardinality(EventsAt(p)) <= 1
       /\ \A i \in 1..Len(sent) : sent[i].with # p
       /\ CycleDone => (Cardinality(EventsAt(p)) = 1 <=> Differs(p))

\* a cycle has ended with a Modify for a path whose size alone changed, and
\* with no event for another path that is in both snapshots unchanged
C15_Witness ==
    /\ CycleDone
    /\ \E p, q \in CommonPaths :
         /\ files[p].mtime = loop.curr[p].mtime
         /\ files[p].size # loop.curr[p].size
         /\ \E i \in EventsAt(p) : sent[i].Op = Modify
         /\ ~Differs(q)
         /\ EventsAt(q) = {}

(***************************************************************************)
(* C16 (as claimed): a Remove of a registered directory target takes the   *)
(* name out of the target set and drops from the stored snapshot exactly   *)
(* the entry of the name and the entries whose parent directory is the     *)
(* name, in every registry state; every other entry is left as it was.     *)
(***************************************************************************)
C16_RemoveDirectory ==
    [][\A c \in Callers :
         (/\ pc[c] = "remove_do" /\ pc'[c] # pc[c]
          /\ arg[c] \in names
          /\ arg[c] \in DOMAIN fs /\ fs[arg[c]].dir)
           => /\ names' = names \ {arg[c]}
              /\ files' = MapDelete(files, {arg[c]} \cup
                              {fp \in DOMAIN files : filepathDir(fp) = arg[c]})]_vars

(***************************************************************************)
(* C17 (as claimed): whenever the registry lock is free, every path of the *)
(* target set has an entry in the stored snapshot and every entry of the   *)
(* snapshot is a registered target or a direct child of one.               *)
(***************************************************************************)
SnapshotCovers ==
    /\ \A n \in names : n \in DOMAIN files
    /\ \A fp \in DOMAIN files : fp \in names \/ filepathDir(fp) \in names

C17_SnapshotCoversTargets == mu = 0 => SnapshotCovers

(***************************************************************************)
(* C18: Start and Close swap the same flag from 0 to 1, so a watcher sees  *)
(* at most one of: a Start that passes the guard (it launches the loop and *)
(* returns nil), or a Close that passes it (it runs the shutdown           *)
(* sequence).  Hence no Start returns ErrWatcherClosed, and w.closed is    *)
(* closed only on a watcher that never had a scan loop.                    *)
(***************************************************************************)
StartPassedGuard ==
    launched >= 1 \/ \E c \in Callers : pc[c] \in {"start_select", "start_go"}
ClosePassedGuard ==
    IsClosed("closed") \/ \E c \in Callers : InShutdown(c)

C19_AddRemoveReturns ==
    \A c \in Callers :
       (LoopAlive /\ pc[c] \in {"add_lock", "remove_lock"}) ~> (pc[c] = "done")

(***************************************************************************)
(* C20 (as claimed): a cycle in which the listing of a registered target   *)
(* fails sends no event for the target's path or for its tracked direct    *)
(* children, and unless the target does not exist those entries are still  *)
(* in the stored snapshot after the cycle.  The failed targets of the      *)
(* cycle are those named by the errors received in it; a path counts for a *)
(* target when no other registered target lists it.                        *)
(***************************************************************************)
ErrorsReceived == {i \in 1..Len(sent) : sent[i].kind = "error"}
EventsReceived == {i \in 1..Len(sent) : sent[i].kind = "event"}
ListedOnlyBy(t, p) ==
    \/ p = t /\ filepathDir(t) \notin names
    \/ filepathDir(p) = t /\ p \notin names

C20_FailedListingSilent ==
    /\ [](\A i \in ErrorsReceived, j \in EventsReceived :
            ~ListedOnlyBy(sent[i].err.name, sent[j].Path))
    /\ [][(loop.pc = "swap" /\ loop'.pc = "select")
            => \A i \in ErrorsReceived :
                 sent[i].err.cause # "ENOENT"
                   => \A p \in DOMAIN files :
                        ListedOnlyBy(sent[i].err.name, p) => p \in DOMAIN files']_vars

====
